---- MODULE Spec2Model ----
(***************************************************************************)
(* The authenticated request pipeline of taiga-mcp: AuthManager            *)
(* (app/core/auth.py), TaigaClient (app/core/client.py) and the paginated  *)
(* list operations of EpicService / UserStoryService (app/services).       *)
(*                                                                         *)
(* Callers are asyncio tasks (tool invocations) sharing the one global     *)
(* auth_manager.  A step of a caller runs from one await that can suspend  *)
(* to the next, which is how the event loop interleaves them.              *)
(***************************************************************************)
EXTENDS Integers, Sequences, FiniteSets, TLC

\* ------------------------------------------------------------- bounds
MaxTime == 3          \* the clock runs from 1 to MaxTime
MaxAuth == 2          \* POST /auth requests sent in one behaviour
MaxTTL == 2           \* settings.token_expiration is drawn from 0..MaxTTL
MaxPrefix == 2        \* pages the server holds before its tail, in every combination
MaxSmallPage == 2     \* the page sizes 1..MaxSmallPage are listed against every server
MaxPathLen == 4       \* pieces in a request path
MaxFailAt == 3        \* side by side, the requests up to this one can fail

\* ---------------------------------------------------------- constants
NoToken == 0          \* AuthManager._token is None
NoClient == 0         \* TaigaClient._client is None
NoStatus == 0         \* TaigaAPIError.status_code is None
Epoch == 0            \* AuthManager._token_expiration after __init__ / clear_token
NoPage == 0           \* the argument page is None / the request has no page parameter

Callers == {"a", "b"}
Verbs == {"GET", "POST", "PATCH", "DELETE"}

\* Arguments of authenticate(username, password): None, "" or a value.
NoArg == "<None>"
UserArgs == {NoArg, "", "alice"}
PwdArgs == {NoArg, "pw-a"}
\* settings.taiga_username / taiga_password (default "").
CfgCreds == {[user |-> "", pwd |-> ""], [user |-> "bob", pwd |-> ""],
             [user |-> "bob", pwd |-> "pw-b"]}

\* What POST /auth can come back with.
AuthResponses == {"ok", "http400", "http500", "neterr", "nofield", "notobject", "badjson"}

\* What a Transport request can come back with: a status, or no response at all.
Statuses == {200, 204, 302, 400, 401, 403, 404, 500}
TransportResponses ==
    [kind : {"http"}, status : Statuses] \cup {[kind |-> "neterr", status |-> NoStatus]}

VARIABLES
    settings,     \* app.config.settings: [user, pwd, ttl]
    now,          \* time.time()
    token,        \* auth_manager._token
    expiry,       \* auth_manager._token_expiration
    authPosts,    \* number of POST /auth requests sent so far
    issued,       \* number of tokens the server has issued (token k is the k-th)
    pc,           \* per caller: where its coroutine is suspended
    frame,        \* per caller: who is waiting for authenticate()/get_token()
    ret,          \* per caller: the value `return self._token` (auth.py:72) evaluated
    client,       \* per caller: TaigaClient._client, as the bearer token in its headers
    req,          \* per caller: the request in flight, [verb, tok, current]; current:
                  \* tok is what get_token() returns, without a POST /auth, at dispatch
    result,       \* per caller: how its last call ended, [op, kind, status, value]
    authBody,     \* per caller: the credentials in its POST /auth body in flight
    got,          \* per caller: what get_token() returned to the verb call in flight
    callReqs,     \* per caller: HTTP requests sent by the session's current/last verb call
    streak,       \* per caller: get_token() calls that returned in a row, up to 2
    listArgs,     \* the list call: [svc, project_id, page_size, page, fetch_all]
    server,       \* the pages the server holds: [sizes, endless]
    lpc,          \* where the list call is
    current_page, \* its current_page
    all_items,    \* its all_epics / all_stories
    lreqs,        \* the GET requests it has issued, [path, project, page_size, page]
    lresult,      \* how it ended: [kind, status, items]
    path,         \* the path argument of the verb call whose errors are classified
    raised,       \* what that call raised: [kind, status, resource_type, identifier]
    first         \* the list call made before the one running: [lreqs, lresult]

tokenVars == <<token, expiry, issued>>
coreVars == <<settings, now, token, expiry, authPosts, issued, pc, frame, ret, client,
              req, result, authBody, got, callReqs, streak>>
listVars == <<listArgs, server, lpc, current_page, all_items, lreqs, lresult>>
errVars == <<path, raised>>
pairVars == <<first>>
otherVars == <<listVars, errVars, pairVars>>
vars == <<coreVars, listVars, errVars, pairVars>>

NoResult == [op |-> "none", kind |-> "ok", status |-> NoStatus, value |-> NoToken]
NoReq == [verb |-> "none", tok |-> NoToken, current |-> FALSE]
NoBody == [user |-> "", pwd |-> ""]
NoRaise == [kind |-> "none", status |-> NoStatus, resource_type |-> <<>>,
            identifier |-> <<>>]
NoFirst == [lreqs |-> <<>>, lresult |-> [kind |-> "none", status |-> NoStatus,
                                         items |-> <<>>]]

\* ------------------------------------------------------- AuthManager

\* is_authenticated with the comparison turned round.
IsAuthenticatedInverted == token # NoToken /\ now > expiry

\* is_authenticated with `<=` for `<`.
IsAuthenticatedInclusive == token # NoToken /\ now <= expiry

\* auth.py:25
IsAuthenticated == token # NoToken /\ now < expiry

\* The configured value winning over the argument.
ResolveConfigFirst(arg, cfg) == IF cfg = "" THEN (IF arg = NoArg THEN "" ELSE arg) ELSE cfg

\* auth.py:45-46: `username or settings.taiga_username`
Resolve(arg, cfg) == IF arg = NoArg \/ arg = "" THEN cfg ELSE arg

\* auth.py:65-86: the exception authenticate() ends with for a response ("ok": none).
AuthOutcome(r) ==
    CASE r = "ok" -> "ok"
      [] r = "http400" -> "AuthenticationError"     \* HTTPStatusError, 400
      [] r = "http500" -> "AuthenticationError"     \* HTTPStatusError, other
      [] r = "neterr" -> "AuthenticationError"      \* RequestError
      [] r = "nofield" -> "AuthenticationError"     \* KeyError
      [] r = "notobject" -> "TypeError"             \* data["auth_token"] on a list
      [] r = "badjson" -> "JSONDecodeError"         \* response.json()

OpOf(fr) == IF fr = "tool" THEN "authenticate" ELSE fr

\* An exception leaving authenticate()/get_token() into the frame waiting for it.
Fail(c, fr, kind) ==
    /\ pc' = [pc EXCEPT ![c] = IF fr \in Verbs THEN "session" ELSE "idle"]
    /\ result' = [result EXCEPT ![c] =
                    [op |-> OpOf(fr), kind |-> kind, status |-> NoStatus, value |-> NoToken]]
    /\ got' = [got EXCEPT ![c] = NoToken]
    /\ callReqs' = [callReqs EXCEPT ![c] = IF fr \in Verbs THEN 0 ELSE @]
    /\ ret' = [ret EXCEPT ![c] = NoToken]
    /\ streak' = [streak EXCEPT ![c] = 0]
    /\ UNCHANGED <<client, req>>

\* get_token() returning t (auth.py:102) into the frame waiting for it:
\* the caller itself, _ensure_client in __aenter__, or _ensure_client in a verb,
\* which then builds the client (client.py:31-38) and sends the request.
Deliver(c, fr, t) ==
    /\ ret' = [ret EXCEPT ![c] = NoToken]
    /\ streak' = [streak EXCEPT ![c] = IF fr = "get_token" /\ @ < 2 THEN @ + 1 ELSE 0]
    /\ CASE fr = "get_token" ->
              /\ pc' = [pc EXCEPT ![c] = "idle"]
              /\ result' = [result EXCEPT ![c] =
                    [op |-> "get_token", kind |-> "ok", status |-> NoStatus, value |-> t]]
              /\ UNCHANGED <<client, req, got, callReqs>>
         [] fr = "aenter" ->
              /\ pc' = [pc EXCEPT ![c] = "session"]
              /\ client' = [client EXCEPT ![c] = t]
              /\ result' = [result EXCEPT ![c] =
                    [op |-> "aenter", kind |-> "ok", status |-> NoStatus, value |-> NoToken]]
              /\ UNCHANGED <<req, got, callReqs>>
         [] fr \in Verbs ->
              /\ pc' = [pc EXCEPT ![c] = "req_wait"]
              /\ client' = [client EXCEPT ![c] = t]
              /\ req' = [req EXCEPT ![c] = [verb |-> fr, tok |-> t, current |-> TRUE]]
              /\ got' = [got EXCEPT ![c] = t]
              /\ callReqs' = [callReqs EXCEPT ![c] = 1]
              /\ UNCHANGED result

\* authenticate(u, p) up to its first await (auth.py:45-64).
AuthStart(c, u, p, fr) ==
    LET user == Resolve(u, settings.user)
        pwd == Resolve(p, settings.pwd)
    IN  IF user = "" \/ pwd = ""
        THEN /\ Fail(c, fr, "AuthenticationError")
             /\ UNCHANGED <<authPosts, authBody, frame>>
        ELSE /\ authPosts < MaxAuth
             /\ authPosts' = authPosts + 1
             /\ authBody' = [authBody EXCEPT ![c] = [user |-> user, pwd |-> pwd]]
             /\ pc' = [pc EXCEPT ![c] = "auth_wait"]
             /\ frame' = [frame EXCEPT ![c] = fr]
             /\ UNCHANGED <<ret, client, req, result, got, callReqs, streak>>

\* get_token() that re-authenticates with the credentials of an explicit call.
GetTokenBodyExplicit(c, fr) ==
    /\ IF IsAuthenticated
       THEN /\ Deliver(c, fr, token)
            /\ UNCHANGED <<authPosts, authBody, frame>>
       ELSE AuthStart(c, "alice", "pw-a", fr)
    /\ UNCHANGED <<settings, now, tokenVars>>

\* get_token() (auth.py:98-102) called for frame fr.
GetTokenBody(c, fr) ==
    /\ IF IsAuthenticated
       THEN /\ Deliver(c, fr, token)
            /\ UNCHANGED <<authPosts, authBody, frame>>
       ELSE AuthStart(c, NoArg, NoArg, fr)
    /\ UNCHANGED <<settings, now, tokenVars>>

\* The tool `authenticate` / a direct auth_manager.authenticate(u, p).
Authenticate(c, u, p) ==
    /\ pc[c] = "idle"
    /\ AuthStart(c, u, p, "tool")
    /\ UNCHANGED <<settings, now, tokenVars, otherVars>>

\* A direct auth_manager.get_token().
GetToken(c) ==
    /\ pc[c] = "idle"
    /\ GetTokenBody(c, "get_token")
    /\ UNCHANGED otherVars

\* authenticate() that stores the current time as the expiry, without the TTL.
AuthResponseNoTTL(c, r) ==
    /\ pc[c] = "auth_wait"
    /\ authBody' = [authBody EXCEPT ![c] = NoBody]
    /\ IF AuthOutcome(r) = "ok"
       THEN /\ issued' = issued + 1
            /\ token' = issued + 1
            /\ expiry' = now
            /\ ret' = [ret EXCEPT ![c] = issued + 1]
            /\ pc' = [pc EXCEPT ![c] = "auth_exit"]
            /\ UNCHANGED <<client, req, result, got, callReqs, streak>>
       ELSE /\ Fail(c, frame[c], AuthOutcome(r))
            /\ UNCHANGED tokenVars
    /\ UNCHANGED <<settings, now, authPosts, frame, otherVars>>

\* auth.py:57-72 and 74-86: the response to POST /auth arrives.
AuthResponse(c, r) ==
    /\ pc[c] = "auth_wait"
    /\ authBody' = [authBody EXCEPT ![c] = NoBody]
    /\ IF AuthOutcome(r) = "ok"
       THEN /\ issued' = issued + 1
            /\ token' = issued + 1
            /\ expiry' = now + settings.ttl
            /\ ret' = [ret EXCEPT ![c] = issued + 1]
            /\ pc' = [pc EXCEPT ![c] = "auth_exit"]
            /\ UNCHANGED <<client, req, result, got, callReqs, streak>>
       ELSE /\ Fail(c, frame[c], AuthOutcome(r))
            /\ UNCHANGED tokenVars
    /\ UNCHANGED <<settings, now, authPosts, frame, otherVars>>

\* auth.py:56 `async with` leaves (the auth connection closes), authenticate()
\* returns, and a waiting get_token() goes on to auth.py:101-102.
AuthExit(c) ==
    /\ pc[c] = "auth_exit"
    /\ IF frame[c] = "tool"
       THEN /\ pc' = [pc EXCEPT ![c] = "idle"]
            /\ result' = [result EXCEPT ![c] =
                  [op |-> "authenticate", kind |-> "ok", status |-> NoStatus,
                   value |-> ret[c]]]
            /\ ret' = [ret EXCEPT ![c] = NoToken]
            /\ streak' = [streak EXCEPT ![c] = 0]
            /\ UNCHANGED <<client, req, got, callReqs>>
       ELSE IF token = NoToken
            THEN Fail(c, frame[c], "AssertionError")
            ELSE Deliver(c, frame[c], token)
    /\ UNCHANGED <<settings, now, tokenVars, authPosts, authBody, frame, otherVars>>

\* clear_token() that leaves the expiry where it was.
ClearTokenKeepsExpiry ==
    /\ token' = NoToken
    /\ UNCHANGED <<expiry, issued>>

\* auth.py:104-107
ClearTokenEffect ==
    /\ token' = NoToken
    /\ expiry' = Epoch
    /\ UNCHANGED issued

\* A direct auth_manager.clear_token().
ClearToken(c) ==
    /\ pc[c] \in {"idle", "session"}
    /\ ClearTokenEffect
    /\ result' = [result EXCEPT ![c] =
          [op |-> "clear_token", kind |-> "ok", status |-> NoStatus, value |-> NoToken]]
    /\ streak' = [streak EXCEPT ![c] = 0]
    /\ UNCHANGED <<settings, now, authPosts, pc, frame, ret, client, req,
                   authBody, got, callReqs, otherVars>>

\* ------------------------------------------------------- TaigaClient

\* `async with TaigaClient() as client` (client.py:18-21): __aenter__ runs
\* _ensure_client (client.py:27-38) on a new TaigaClient, whose _client is None.
SessionEnter(c) ==
    /\ pc[c] = "idle"
    /\ client[c] = NoClient
    /\ GetTokenBody(c, "aenter")
    /\ UNCHANGED otherVars

\* A verb method up to its await (client.py:59-63, 85-89, 111-115, 134-138):
\* _ensure_client, then the request goes out with the client's headers.
Request(c, verb) ==
    /\ pc[c] = "session"
    /\ IF client[c] = NoClient
       THEN GetTokenBody(c, verb)
       ELSE /\ pc' = [pc EXCEPT ![c] = "req_wait"]
            /\ req' = [req EXCEPT ![c] =
                  [verb |-> verb, tok |-> client[c],
                   current |-> IsAuthenticated /\ client[c] = token]]
            /\ got' = [got EXCEPT ![c] = NoToken]
            /\ callReqs' = [callReqs EXCEPT ![c] = 1]
            /\ UNCHANGED <<settings, now, tokenVars, authPosts, frame, ret, client,
                           result, authBody, streak>>

\* client.py:46-70
Get(c) == Request(c, "GET") /\ UNCHANGED otherVars

\* client.py:72-96
Post(c) == Request(c, "POST") /\ UNCHANGED otherVars

\* client.py:98-122
Patch(c) == Request(c, "PATCH") /\ UNCHANGED otherVars

\* client.py:124-143
Delete(c) == Request(c, "DELETE") /\ UNCHANGED otherVars

\* httpx.Response.is_success, which raise_for_status() tests.
IsSuccess(status) == status \in 200..299

\* _handle_error without the clear_token() of its 401 branch.
HandleErrorKeepsToken(status) ==
    IF status = 404
    THEN [kind |-> "ResourceNotFoundError", status |-> 404, clear |-> FALSE]
    ELSE [kind |-> "TaigaAPIError", status |-> status, clear |-> FALSE]

\* _handle_error without its 404 branch.
HandleErrorNo404(status) ==
    [kind |-> "TaigaAPIError", status |-> status, clear |-> status = 401]

\* _handle_error clearing the token for 403 as for 401.
HandleErrorClearsOn403(status) ==
    IF status = 404
    THEN [kind |-> "ResourceNotFoundError", status |-> 404, clear |-> FALSE]
    ELSE [kind |-> "TaigaAPIError", status |-> status, clear |-> status \in {401, 403}]

\* client.py:145-169: the exception _handle_error raises for a status, and
\* whether it clears the token first.
HandleError(status) ==
    IF status = 404
    THEN [kind |-> "ResourceNotFoundError", status |-> 404, clear |-> FALSE]
    ELSE IF status = 401
    THEN [kind |-> "TaigaAPIError", status |-> status, clear |-> TRUE]
    ELSE IF status = 403
    THEN [kind |-> "TaigaAPIError", status |-> status, clear |-> FALSE]
    ELSE [kind |-> "TaigaAPIError", status |-> status, clear |-> FALSE]

\* A verb method that returns normally for a 500 response too.
OutcomeSwallows500(r) ==
    IF r.kind = "neterr"
    THEN [kind |-> "TaigaAPIError", status |-> NoStatus, clear |-> FALSE]
    ELSE IF IsSuccess(r.status) \/ r.status = 500
    THEN [kind |-> "ok", status |-> NoStatus, clear |-> FALSE]
    ELSE HandleError(r.status)

\* How a verb method ends for response r (client.py:64-70 and the like).
Outcome(r) ==
    IF r.kind = "neterr"
    THEN [kind |-> "TaigaAPIError", status |-> NoStatus, clear |-> FALSE]
    ELSE IF IsSuccess(r.status)
    THEN [kind |-> "ok", status |-> NoStatus, clear |-> FALSE]
    ELSE HandleError(r.status)

\* The response to the request in flight arrives and the verb method ends.
\* result.value is the bearer token the request carried.
Receive(c, r) ==
    /\ pc[c] = "req_wait"
    /\ pc' = [pc EXCEPT ![c] = "session"]
    /\ result' = [result EXCEPT ![c] =
          [op |-> req[c].verb, kind |-> Outcome(r).kind, status |-> Outcome(r).status,
           value |-> req[c].tok]]
    /\ IF Outcome(r).clear THEN ClearTokenEffect ELSE UNCHANGED tokenVars
    /\ req' = [req EXCEPT ![c] = NoReq]
    /\ got' = [got EXCEPT ![c] = NoToken]
    /\ streak' = [streak EXCEPT ![c] = 0]
    /\ UNCHANGED <<settings, now, authPosts, frame, ret, client, authBody, callReqs>>

\* A verb method called by the tool itself gets its response.
Response(c, r) == Receive(c, r) /\ UNCHANGED otherVars

\* close() that leaves the httpx client in place.
CloseKeeps(c) ==
    /\ pc[c] = "session"
    /\ result' = [result EXCEPT ![c] =
          [op |-> "close", kind |-> "ok", status |-> NoStatus, value |-> NoToken]]
    /\ streak' = [streak EXCEPT ![c] = 0]
    /\ UNCHANGED <<settings, now, tokenVars, authPosts, pc, frame, ret, client, req,
                   authBody, got, callReqs, otherVars>>

\* client.py:40-44: close().
Close(c) ==
    /\ pc[c] = "session"
    /\ client' = [client EXCEPT ![c] = NoClient]
    /\ result' = [result EXCEPT ![c] =
          [op |-> "close", kind |-> "ok", status |-> NoStatus, value |-> NoToken]]
    /\ streak' = [streak EXCEPT ![c] = 0]
    /\ UNCHANGED <<settings, now, tokenVars, authPosts, pc, frame, ret, req, authBody,
                   got, callReqs, otherVars>>

\* __aexit__ without its close().
SessionExitLeaks(c) ==
    /\ pc[c] = "session"
    /\ pc' = [pc EXCEPT ![c] = "idle"]
    /\ callReqs' = [callReqs EXCEPT ![c] = 0]
    /\ UNCHANGED <<settings, now, tokenVars, authPosts, frame, ret, client, req, result,
                   authBody, got, streak, otherVars>>

\* The `async with` block ends (client.py:23-25): __aexit__ closes.
SessionExit(c) ==
    /\ pc[c] = "session"
    /\ pc' = [pc EXCEPT ![c] = "idle"]
    /\ client' = [client EXCEPT ![c] = NoClient]
    /\ callReqs' = [callReqs EXCEPT ![c] = 0]
    /\ UNCHANGED <<settings, now, tokenVars, authPosts, frame, ret, req, result,
                   authBody, got, streak, otherVars>>

\* The clock.
Tick ==
    /\ now < MaxTime
    /\ now' = now + 1
    /\ UNCHANGED <<settings, tokenVars, authPosts, pc, frame, ret, client, req,
                   result, authBody, got, callReqs, streak, otherVars>>

\* No list call: the list variables stay as they are.
ListOff ==
    /\ listArgs = [svc |-> "none", project_id |-> 0, page_size |-> 0, page |-> NoPage,
                   fetch_all |-> FALSE]
    /\ server = [sizes |-> <<>>, endless |-> FALSE]
    /\ lpc = "off"
    /\ current_page = 0
    /\ all_items = <<>>
    /\ lreqs = <<>>
    /\ lresult = [kind |-> "none", status |-> NoStatus, items |-> <<>>]

\* No verb call whose path is followed.
ErrOff == path = <<>> /\ raised = NoRaise

\* No list call was made before.
PairOff == first = NoFirst

Init ==
    /\ ListOff
    /\ ErrOff
    /\ PairOff
    /\ settings \in {[user |-> k.user, pwd |-> k.pwd, ttl |-> t] :
                        k \in CfgCreds, t \in 0..MaxTTL}
    /\ now = 1
    /\ token = NoToken
    /\ expiry = Epoch
    /\ authPosts = 0
    /\ issued = 0
    /\ pc = [c \in Callers |-> "idle"]
    /\ frame = [c \in Callers |-> "tool"]
    /\ ret = [c \in Callers |-> NoToken]
    /\ client = [c \in Callers |-> NoClient]
    /\ req = [c \in Callers |-> NoReq]
    /\ result = [c \in Callers |-> NoResult]
    /\ authBody = [c \in Callers |-> NoBody]
    /\ got = [c \in Callers |-> NoToken]
    /\ callReqs = [c \in Callers |-> 0]
    /\ streak = [c \in Callers |-> 0]

\* Everything one caller can do next.
Step(c) ==
    \/ \E u \in UserArgs, p \in PwdArgs : Authenticate(c, u, p)
    \/ GetToken(c)
    \/ \E r \in AuthResponses : AuthResponse(c, r)
    \/ AuthExit(c)
    \/ ClearToken(c)
    \/ SessionEnter(c)
    \/ Get(c)
    \/ Post(c)
    \/ Patch(c)
    \/ Delete(c)
    \/ \E r \in TransportResponses : Response(c, r)
    \/ Close(c)
    \/ SessionExit(c)

\* One tool invocation at a time.
Next == Tick \/ Step("a")

Spec == Init /\ [][Next]_vars

\* Concurrent tool invocations sharing auth_manager: each caller takes tokens,
\* opens sessions, sends GETs, which the server answers 200 or 401, and clears
\* the token; POST /auth is answered with a token or with 400. The settings
\* hold credentials.
StepConc(c) ==
    \/ GetToken(c)
    \/ \E r \in {"ok", "http400"} : AuthResponse(c, r)
    \/ AuthExit(c)
    \/ ClearToken(c)
    \/ SessionEnter(c)
    \/ Get(c)
    \/ \E s \in {200, 401} : Response(c, [kind |-> "http", status |-> s])
    \/ SessionExit(c)

InitConc == Init /\ settings.user # "" /\ settings.pwd # ""

NextConc == Tick \/ \E c \in Callers : StepConc(c)

SpecConc == InitConc /\ [][NextConc]_vars

\* ------------------------------------------------- paths of verb calls

\* A path is a sequence of pieces: the character "/" or a run of other
\* characters, so "/epics/999" is <<"/", "epics", "/", "999">>. The paths a verb
\* method is tried with: not empty and without an empty segment in the middle.
PathPieces == {"/", "epics", "999"}
Paths ==
    {p \in UNION {[1..n -> PathPieces] : n \in 1..MaxPathLen} :
        \A i \in 1..(Len(p) - 1) : ~(p[i] = "/" /\ p[i + 1] = "/")}

HasSlash(p) == \E i \in 1..Len(p) : p[i] = "/"

RECURSIVE Split(_)
\* str.split("/"): the pieces between the slashes, empty ones included.
Split(p) ==
    IF ~HasSlash(p) THEN <<p>>
    ELSE LET i == CHOOSE k \in 1..Len(p) : p[k] = "/" /\ \A j \in 1..(k - 1) : p[j] # "/"
         IN  <<SubSeq(p, 1, i - 1)>> \o Split(SubSeq(p, i + 1, Len(p)))

\* client.py:151: `path.split("/")[1] if "/" in path else "Resource"`
ResourceType(p) == IF HasSlash(p) THEN Split(p)[2] ELSE <<"Resource">>

\* client.py:145-169 with exceptions.py:16-30: the exception a verb call on
\* path p ends with, o being how the call ends.
Raise(o, p) ==
    IF o.kind = "ResourceNotFoundError"
    THEN [kind |-> o.kind, status |-> 404, resource_type |-> ResourceType(p),
          identifier |-> p]
    ELSE [kind |-> o.kind, status |-> o.status, resource_type |-> <<>>,
          identifier |-> <<>>]

\* client.get/post/patch/delete(p, ...) up to its await.
PathRequest(verb, p) ==
    /\ Request("a", verb)
    /\ path' = p
    /\ raised' = NoRaise
    /\ UNCHANGED <<listVars, pairVars>>

\* The response arrives and the verb method returns or raises.
PathResponse(r) ==
    /\ Receive("a", r)
    /\ raised' = IF Outcome(r).kind = "ok" THEN NoRaise ELSE Raise(Outcome(r), path)
    /\ UNCHANGED <<path, listVars, pairVars>>

\* A tool inside `async with TaigaClient() as client`, about to call a verb.
InitPath ==
    /\ ListOff
    /\ ErrOff
    /\ PairOff
    /\ settings = [user |-> "bob", pwd |-> "pw-b", ttl |-> MaxTTL]
    /\ now = 1
    /\ token = 1
    /\ expiry = 1 + MaxTTL
    /\ authPosts = 1
    /\ issued = 1
    /\ pc = [c \in Callers |-> IF c = "a" THEN "session" ELSE "idle"]
    /\ frame = [c \in Callers |-> IF c = "a" THEN "aenter" ELSE "tool"]
    /\ ret = [c \in Callers |-> NoToken]
    /\ client = [c \in Callers |-> IF c = "a" THEN 1 ELSE NoClient]
    /\ req = [c \in Callers |-> NoReq]
    /\ result = [c \in Callers |->
          IF c = "a"
          THEN [op |-> "aenter", kind |-> "ok", status |-> NoStatus, value |-> NoToken]
          ELSE NoResult]
    /\ authBody = [c \in Callers |-> NoBody]
    /\ got = [c \in Callers |-> NoToken]
    /\ callReqs = [c \in Callers |-> 0]
    /\ streak = [c \in Callers |-> 0]

NextPath ==
    \/ \E verb \in Verbs, p \in Paths : PathRequest(verb, p)
    \/ \E r \in TransportResponses : PathResponse(r)

SpecPath == InitPath /\ [][NextPath]_vars

\* ------------------------------------------------------ list operations

\* The arguments a list call is tried with.
Projects == {7}
PageSizes == {-1, 0, 100, 101} \cup 1..MaxSmallPage
PageArgs == {NoPage, 1, 2}

\* The servers a list call of page size ps is tried against: every sequence of
\* up to MaxPrefix pages of 0, ps-1, ps or ps+1 items followed by empty pages; a
\* server whose every page is full; and pages of 100, 100 and 37 items.
SizesFor(ps) == {n \in {0, ps - 1, ps, ps + 1} : n >= 0}
Servers(ps) ==
    IF ps < 1 \/ ps > 100
    THEN {[sizes |-> <<>>, endless |-> FALSE], [sizes |-> <<ps>>, endless |-> FALSE]}
    ELSE {[sizes |-> q, endless |-> FALSE] :
             q \in UNION {[1..k -> SizesFor(ps)] : k \in 0..MaxPrefix}}
         \cup (IF ps <= MaxSmallPage THEN {[sizes |-> <<>>, endless |-> TRUE]} ELSE {})
         \cup (IF ps = 100 THEN {[sizes |-> <<100, 100, 37>>, endless |-> FALSE]} ELSE {})

\* The JSON array the server answers request q with: item i of page p is <<p, i>>.
\* A request without a page parameter gets the first page.
ServerPage(q) ==
    LET p == IF q.page = NoPage THEN 1 ELSE q.page
        n == IF p \in 1..Len(server.sizes) THEN server.sizes[p]
             ELSE IF server.endless THEN q.page_size ELSE 0
    IN  [i \in 1..n |-> <<p, i>>]

\* The responses a list request is tried with (a 2xx response carries the page).
ListResponses == {r \in TransportResponses : r.status # 204}

\* The second break with `<=` for `<`.
ListEpicsBreaksOnFull(data, page_size) == data = <<>> \/ Len(data) <= page_size

\* epic_service.py:63-71: the two breaks of the loop body (an empty page is not
\* appended, which leaves all_epics as appending it would).
ListEpicsBreaks(data, page_size) == data = <<>> \/ Len(data) < page_size

\* list_epics whose single-page request leaves the page parameter out.
ListEpicsCallDropsPage ==
    /\ lpc = "call"
    /\ listArgs.svc = "epics"
    /\ LET project_id == listArgs.project_id
           page_size == listArgs.page_size
           page == listArgs.page
           fetch_all == listArgs.fetch_all
       IN  IF page_size < 1 \/ page_size > 100
           THEN /\ lresult' = [kind |-> "ValueError", status |-> NoStatus, items |-> <<>>]
                /\ lpc' = "done"
                /\ UNCHANGED <<coreVars, current_page, all_items, lreqs>>
           ELSE IF page # NoPage /\ ~fetch_all
           THEN /\ Request("a", "GET")
                /\ lreqs' = Append(lreqs, [path |-> "/epics", project |-> project_id,
                                           page_size |-> page_size, page |-> NoPage])
                /\ lpc' = "single"
                /\ UNCHANGED <<current_page, all_items, lresult>>
           ELSE IF fetch_all
           THEN /\ all_items' = <<>>
                /\ current_page' = 1
                /\ lpc' = "loop"
                /\ UNCHANGED <<coreVars, lreqs, lresult>>
           ELSE /\ Request("a", "GET")
                /\ lreqs' = Append(lreqs, [path |-> "/epics", project |-> project_id,
                                           page_size |-> page_size, page |-> NoPage])
                /\ lpc' = "default"
                /\ UNCHANGED <<current_page, all_items, lresult>>
    /\ UNCHANGED <<errVars, pairVars, listArgs, server>>

\* list_epics that fetches all pages whenever page is not given.
ListEpicsCallDefaultLoops ==
    /\ lpc = "call"
    /\ listArgs.svc = "epics"
    /\ LET project_id == listArgs.project_id
           page_size == listArgs.page_size
           page == listArgs.page
           fetch_all == listArgs.fetch_all
       IN  IF page_size < 1 \/ page_size > 100
           THEN /\ lresult' = [kind |-> "ValueError", status |-> NoStatus, items |-> <<>>]
                /\ lpc' = "done"
                /\ UNCHANGED <<coreVars, current_page, all_items, lreqs>>
           ELSE IF page # NoPage /\ ~fetch_all
           THEN /\ Request("a", "GET")
                /\ lreqs' = Append(lreqs, [path |-> "/epics", project |-> project_id,
                                           page_size |-> page_size, page |-> page])
                /\ lpc' = "single"
                /\ UNCHANGED <<current_page, all_items, lresult>>
           ELSE /\ all_items' = <<>>
                /\ current_page' = 1
                /\ lpc' = "loop"
                /\ UNCHANGED <<coreVars, lreqs, lresult>>
    /\ UNCHANGED <<errVars, pairVars, listArgs, server>>

\* epic_service.py:16-51: list_epics up to its first request.
ListEpicsCall ==
    /\ lpc = "call"
    /\ listArgs.svc = "epics"
    /\ LET project_id == listArgs.project_id
           page_size == listArgs.page_size
           page == listArgs.page
           fetch_all == listArgs.fetch_all
       IN  IF page_size < 1 \/ page_size > 100
           THEN /\ lresult' = [kind |-> "ValueError", status |-> NoStatus, items |-> <<>>]
                /\ lpc' = "done"
                /\ UNCHANGED <<coreVars, current_page, all_items, lreqs>>
           ELSE IF page # NoPage /\ ~fetch_all
           THEN /\ Request("a", "GET")
                /\ lreqs' = Append(lreqs, [path |-> "/epics", project |-> project_id,
                                           page_size |-> page_size, page |-> page])
                /\ lpc' = "single"
                /\ UNCHANGED <<current_page, all_items, lresult>>
           ELSE IF fetch_all
           THEN /\ all_items' = <<>>
                /\ current_page' = 1
                /\ lpc' = "loop"
                /\ UNCHANGED <<coreVars, lreqs, lresult>>
           ELSE /\ Request("a", "GET")
                /\ lreqs' = Append(lreqs, [path |-> "/epics", project |-> project_id,
                                           page_size |-> page_size, page |-> NoPage])
                /\ lpc' = "default"
                /\ UNCHANGED <<current_page, all_items, lresult>>
    /\ UNCHANGED <<errVars, pairVars, listArgs, server>>

\* The loop of list_epics with `<` for `<=` in its test.
ListEpicsLoopShort ==
    /\ lpc = "loop"
    /\ listArgs.svc = "epics"
    /\ LET max_pages == 1000
       IN  IF current_page < max_pages
           THEN /\ Request("a", "GET")
                /\ lreqs' = Append(lreqs, [path |-> "/epics",
                                           project |-> listArgs.project_id,
                                           page_size |-> listArgs.page_size,
                                           page |-> current_page])
                /\ lpc' = "all"
                /\ UNCHANGED lresult
           ELSE /\ lresult' = [kind |-> "ok", status |-> NoStatus, items |-> all_items]
                /\ lpc' = "done"
                /\ UNCHANGED <<coreVars, lreqs>>
    /\ UNCHANGED <<errVars, pairVars, listArgs, server, current_page, all_items>>

\* epic_service.py:53-61, 75: the loop test, the next page's request, and the return after the loop.
ListEpicsLoop ==
    /\ lpc = "loop"
    /\ listArgs.svc = "epics"
    /\ LET max_pages == 1000
       IN  IF current_page <= max_pages
           THEN /\ Request("a", "GET")
                /\ lreqs' = Append(lreqs, [path |-> "/epics",
                                           project |-> listArgs.project_id,
                                           page_size |-> listArgs.page_size,
                                           page |-> current_page])
                /\ lpc' = "all"
                /\ UNCHANGED lresult
           ELSE /\ lresult' = [kind |-> "ok", status |-> NoStatus, items |-> all_items]
                /\ lpc' = "done"
                /\ UNCHANGED <<coreVars, lreqs>>
    /\ UNCHANGED <<errVars, pairVars, listArgs, server, current_page, all_items>>

\* epic_service.py:41-45, 54-75, 78-82: client.get returns the page, or raises.
ListEpicsResponse(r) ==
    /\ lpc \in {"single", "all", "default"}
    /\ listArgs.svc = "epics"
    /\ Receive("a", r)
    /\ LET data == ServerPage(lreqs[Len(lreqs)])
           page_size == listArgs.page_size
       IN  IF Outcome(r).kind # "ok"
           THEN /\ lresult' = [kind |-> Outcome(r).kind, status |-> Outcome(r).status,
                               items |-> <<>>]
                /\ lpc' = "done"
                /\ all_items' = <<>>
                /\ UNCHANGED current_page
           ELSE IF lpc # "all"
           THEN /\ lresult' = [kind |-> "ok", status |-> NoStatus, items |-> data]
                /\ lpc' = "done"
                /\ UNCHANGED <<current_page, all_items>>
           ELSE /\ all_items' = all_items \o data
                /\ IF ListEpicsBreaks(data, page_size)
                   THEN /\ lresult' = [kind |-> "ok", status |-> NoStatus,
                                       items |-> all_items \o data]
                        /\ lpc' = "done"
                        /\ UNCHANGED current_page
                   ELSE /\ current_page' = current_page + 1
                        /\ lpc' = "loop"
                        /\ UNCHANGED lresult
    /\ UNCHANGED <<errVars, pairVars, listArgs, server, lreqs>>

\* The loop of list_user_stories breaking on an empty page only.
ListUserStoriesBreaksOnEmpty(data, page_size) == data = <<>>

\* userstory_service.py:67-75: the two breaks of the loop body.
ListUserStoriesBreaks(data, page_size) == data = <<>> \/ Len(data) < page_size

\* userstory_service.py:20-55: list_user_stories up to its first request.
ListUserStoriesCall ==
    /\ lpc = "call"
    /\ listArgs.svc = "userstories"
    /\ LET project_id == listArgs.project_id
           page_size == listArgs.page_size
           page == listArgs.page
           fetch_all == listArgs.fetch_all
       IN  IF page_size < 1 \/ page_size > 100
           THEN /\ lresult' = [kind |-> "ValueError", status |-> NoStatus, items |-> <<>>]
                /\ lpc' = "done"
                /\ UNCHANGED <<coreVars, current_page, all_items, lreqs>>
           ELSE IF page # NoPage /\ ~fetch_all
           THEN /\ Request("a", "GET")
                /\ lreqs' = Append(lreqs, [path |-> "/userstories", project |-> project_id,
                                           page_size |-> page_size, page |-> page])
                /\ lpc' = "single"
                /\ UNCHANGED <<current_page, all_items, lresult>>
           ELSE IF fetch_all
           THEN /\ all_items' = <<>>
                /\ current_page' = 1
                /\ lpc' = "loop"
                /\ UNCHANGED <<coreVars, lreqs, lresult>>
           ELSE /\ Request("a", "GET")
                /\ lreqs' = Append(lreqs, [path |-> "/userstories", project |-> project_id,
                                           page_size |-> page_size, page |-> NoPage])
                /\ lpc' = "default"
                /\ UNCHANGED <<current_page, all_items, lresult>>
    /\ UNCHANGED <<errVars, pairVars, listArgs, server>>

\* userstory_service.py:57-65, 79: the loop test, the next page's request, and the return after the loop.
ListUserStoriesLoop ==
    /\ lpc = "loop"
    /\ listArgs.svc = "userstories"
    /\ LET max_pages == 1000
       IN  IF current_page <= max_pages
           THEN /\ Request("a", "GET")
                /\ lreqs' = Append(lreqs, [path |-> "/userstories",
                                           project |-> listArgs.project_id,
                                           page_size |-> listArgs.page_size,
                                           page |-> current_page])
                /\ lpc' = "all"
                /\ UNCHANGED lresult
           ELSE /\ lresult' = [kind |-> "ok", status |-> NoStatus, items |-> all_items]
                /\ lpc' = "done"
                /\ UNCHANGED <<coreVars, lreqs>>
    /\ UNCHANGED <<errVars, pairVars, listArgs, server, current_page, all_items>>

\* userstory_service.py:45-49, 58-79, 82-86: client.get returns the page, or raises.
ListUserStoriesResponse(r) ==
    /\ lpc \in {"single", "all", "default"}
    /\ listArgs.svc = "userstories"
    /\ Receive("a", r)
    /\ LET data == ServerPage(lreqs[Len(lreqs)])
           page_size == listArgs.page_size
       IN  IF Outcome(r).kind # "ok"
           THEN /\ lresult' = [kind |-> Outcome(r).kind, status |-> Outcome(r).status,
                               items |-> <<>>]
                /\ lpc' = "done"
                /\ all_items' = <<>>
                /\ UNCHANGED current_page
           ELSE IF lpc # "all"
           THEN /\ lresult' = [kind |-> "ok", status |-> NoStatus, items |-> data]
                /\ lpc' = "done"
                /\ UNCHANGED <<current_page, all_items>>
           ELSE /\ all_items' = all_items \o data
                /\ IF ListUserStoriesBreaks(data, page_size)
                   THEN /\ lresult' = [kind |-> "ok", status |-> NoStatus,
                                       items |-> all_items \o data]
                        /\ lpc' = "done"
                        /\ UNCHANGED current_page
                   ELSE /\ current_page' = current_page + 1
                        /\ lpc' = "loop"
                        /\ UNCHANGED lresult
    /\ UNCHANGED <<errVars, pairVars, listArgs, server, lreqs>>

\* A list tool is invoked inside `async with TaigaClient() as client`: the
\* session is open and the service holds its client.
InitList ==
    /\ settings = [user |-> "bob", pwd |-> "pw-b", ttl |-> MaxTTL]
    /\ now = 1
    /\ token = 1
    /\ expiry = 1 + MaxTTL
    /\ authPosts = 1
    /\ issued = 1
    /\ pc = [c \in Callers |-> IF c = "a" THEN "session" ELSE "idle"]
    /\ frame = [c \in Callers |-> IF c = "a" THEN "aenter" ELSE "tool"]
    /\ ret = [c \in Callers |-> NoToken]
    /\ client = [c \in Callers |-> IF c = "a" THEN 1 ELSE NoClient]
    /\ req = [c \in Callers |-> NoReq]
    /\ result = [c \in Callers |->
          IF c = "a"
          THEN [op |-> "aenter", kind |-> "ok", status |-> NoStatus, value |-> NoToken]
          ELSE NoResult]
    /\ authBody = [c \in Callers |-> NoBody]
    /\ got = [c \in Callers |-> NoToken]
    /\ callReqs = [c \in Callers |-> 0]
    /\ streak = [c \in Callers |-> 0]
    /\ listArgs \in [svc : {"epics", "userstories"}, project_id : Projects,
                     page_size : PageSizes, page : PageArgs, fetch_all : BOOLEAN]
    /\ server \in Servers(listArgs.page_size)
    /\ lpc = "call"
    /\ current_page = 0
    /\ all_items = <<>>
    /\ lreqs = <<>>
    /\ lresult = [kind |-> "none", status |-> NoStatus, items |-> <<>>]
    /\ ErrOff
    /\ PairOff

NextList ==
    \/ ListEpicsCall
    \/ ListEpicsLoop
    \/ \E r \in ListResponses : ListEpicsResponse(r)
    \/ ListUserStoriesCall
    \/ ListUserStoriesLoop
    \/ \E r \in ListResponses : ListUserStoriesResponse(r)

SpecList == InitList /\ [][NextList]_vars

\* ---------------------------------- the two list operations side by side

\* The epic list tool has ended; the user-story list tool is invoked with
\* the same arguments against the same server, in a session of its own.
Replay ==
    /\ lpc = "done"
    /\ listArgs.svc = "epics"
    /\ first = NoFirst
    /\ first' = [lreqs |-> lreqs, lresult |-> lresult]
    /\ listArgs' = [listArgs EXCEPT !.svc = "userstories"]
    /\ lpc' = "call"
    /\ current_page' = 0
    /\ all_items' = <<>>
    /\ lreqs' = <<>>
    /\ lresult' = [kind |-> "none", status |-> NoStatus, items |-> <<>>]
    /\ token' = issued + 1
    /\ issued' = issued + 1
    /\ expiry' = now + settings.ttl
    /\ authPosts' = authPosts + 1
    /\ client' = [client EXCEPT !["a"] = issued + 1]
    /\ result' = [result EXCEPT !["a"] =
          [op |-> "aenter", kind |-> "ok", status |-> NoStatus, value |-> NoToken]]
    /\ UNCHANGED <<settings, now, pc, frame, ret, req, authBody, got, callReqs, streak,
                   server, errVars>>

\* The response the server gave the first call's request number n: every
\* request before its last one succeeded, the last one ended the call.
SameResponse(r, n) ==
    IF n < Len(first.lreqs) \/ first.lresult.kind = "ok"
    THEN Outcome(r).kind = "ok"
    ELSE /\ Outcome(r).kind = first.lresult.kind
         /\ Outcome(r).status = first.lresult.status
         /\ (r.kind = "neterr") = (first.lresult.status = NoStatus)

\* The user-story call gets, for its n-th request, the response the epic call
\* got for its n-th.
ReplayResponse(r) ==
    /\ first # NoFirst
    /\ Len(lreqs) <= Len(first.lreqs)
    /\ SameResponse(r, Len(lreqs))
    /\ ListUserStoriesResponse(r)

\* The epic call gets a response: any one for its first requests, a
\* successful one for those after.
PairResponse(r) ==
    /\ first = NoFirst
    /\ Len(lreqs) <= MaxFailAt \/ Outcome(r).kind = "ok"
    /\ ListEpicsResponse(r)

InitPair == InitList /\ listArgs.svc = "epics"

NextPair ==
    \/ ListEpicsCall
    \/ ListEpicsLoop
    \/ \E r \in ListResponses : PairResponse(r)
    \/ Replay
    \/ ListUserStoriesCall
    \/ ListUserStoriesLoop
    \/ \E r \in ListResponses : ReplayResponse(r)

SpecPair == InitPair /\ [][NextPair]_vars

\* ---------------------------------------------------------------- claims

\* C1: is_authenticated is true iff a token is cached and the current time is
\* strictly before the stored expiry (false when now = expiry), and it is false
\* in the state right after clear_token(), whatever the state before.
C1_IsAuthenticated ==
    /\ [](/\ IsAuthenticated <=> (token # NoToken /\ now < expiry)
          /\ now = expiry => ~IsAuthenticated
          /\ token = NoToken => ~IsAuthenticated)
    /\ [][\A c \in Callers : ClearToken(c) => ~IsAuthenticated']_vars

\* A token is cached and the clock stands exactly at its expiry.
C1_Witness == token # NoToken /\ now = expiry /\ settings.ttl > 0 /\ ~IsAuthenticated

\* C2: a get_token() that directly follows a get_token() of the same caller,
\* the token unexpired and nothing in between, returns the same token and sends
\* no POST /auth.
C2_GetTokenCached ==
    [][\A c \in Callers :
          (GetToken(c) /\ streak[c] >= 1 /\ now < expiry) =>
              /\ pc'[c] = "idle"
              /\ result'[c].op = "get_token" /\ result'[c].kind = "ok"
              /\ result'[c].value = result[c].value
              /\ authPosts' = authPosts]_vars

\* Two get_token() calls returned in a row and one POST /auth was sent in all.
C2_Witness ==
    /\ streak["a"] = 2 /\ authPosts = 1
    /\ result["a"].op = "get_token" /\ result["a"].value = token /\ token # NoToken

\* C3: a verb method that receives 401 clears the token, ends with
\* TaigaAPIError(status 401), and has sent one request: no POST /auth and no
\* second request go out before it returns.
C3_On401 ==
    [][\A c \in Callers :
          (Response(c, [kind |-> "http", status |-> 401])) =>
              /\ token' = NoToken /\ ~IsAuthenticated'
              /\ result'[c].kind = "TaigaAPIError" /\ result'[c].status = 401
              /\ callReqs'[c] = 1
              /\ authPosts' = authPosts
              /\ pc'[c] = "session"]_vars

\* A verb method has just ended with the 401 failure.
C3_Witness ==
    /\ result["a"].op \in Verbs /\ result["a"].status = 401
    /\ pc["a"] = "session" /\ token = NoToken /\ issued >= 1

\* C4 (as claimed): every request in flight carries the token a get_token()
\* made for it returned: the one that call got, or else the cached token, not
\* cleared and not expired at dispatch. (Stated for a positive TTL and for a
\* request that follows a successful one of the same caller.)
C4_Claimed ==
    \A c \in Callers :
        (pc[c] = "req_wait" /\ settings.ttl > 0
            /\ result[c].op \in Verbs /\ result[c].kind = "ok") =>
            ((got[c] # NoToken /\ req[c].tok = got[c]) \/ req[c].current)

\* C5 (as claimed): the request that follows a 401 failure of the same caller
\* was preceded by a get_token() and does not carry the invalidated token.
C5_Claimed ==
    \A c \in Callers :
        (pc[c] = "req_wait" /\ result[c].op \in Verbs /\ result[c].status = 401) =>
            (got[c] # NoToken /\ req[c].tok # result[c].value)

\* The page the server holds at index i, for the call's page size.
PageAt(i) == ServerPage([page |-> i, page_size |-> listArgs.page_size])

RECURSIVE ConcatPages(_, _)
\* Pages lo..hi in order, each page's items in order.
ConcatPages(lo, hi) ==
    IF lo > hi THEN <<>>
    ELSE IF lo = hi THEN PageAt(lo)
    ELSE LET mid == (lo + hi) \div 2
         IN  ConcatPages(lo, mid) \o ConcatPages(mid + 1, hi)

\* The i-th request of a fetch-all call.
PageRequest(i) ==
    [path |-> IF listArgs.svc = "epics" THEN "/epics" ELSE "/userstories",
     project |-> listArgs.project_id, page_size |-> listArgs.page_size, page |-> i]

\* A fetch-all call has returned.
FetchAllReturned == lpc = "done" /\ listArgs.fetch_all /\ lresult.kind = "ok"

\* Pages 1..n were requested in order, the result is their concatenation, and
\* none before the last was empty or short.
FetchedInOrder ==
    LET n == Len(lreqs)
    IN  /\ n >= 1
        /\ \A i \in 1..n : lreqs[i] = PageRequest(i)
        /\ lresult.items = ConcatPages(1, n)
        /\ \A i \in 1..(n - 1) : Len(PageAt(i)) >= listArgs.page_size

\* The two cases the specification spells out.
FetchAllExamples ==
    /\ (listArgs.page_size = 100 /\ server.sizes = <<100, 100, 37>>) =>
            (Len(lreqs) = 3 /\ Len(lresult.items) = 237)
    /\ Len(PageAt(1)) = 0 => (Len(lreqs) = 1 /\ lresult.items = <<>>)

\* C6 (as claimed): with fetch_all, whatever page is, pages 1, 2, 3, ... are
\* requested in order with the given project and page_size, the call stops
\* right after the first page that is empty or has fewer than page_size items,
\* and returns the concatenation of the pages fetched; [100,100,37] at 100
\* takes 3 requests and gives 237 items, an empty first page 1 request and <<>>.
C6_Claimed ==
    FetchAllReturned =>
        /\ FetchedInOrder
        /\ Len(PageAt(Len(lreqs))) < listArgs.page_size
        /\ FetchAllExamples

\* C6 (amended): as claimed, except that the call also stops after page 1000
\* when none of the pages 1..1000 is empty or short.
C6_FetchAll ==
    FetchAllReturned =>
        /\ FetchedInOrder
        /\ \/ Len(PageAt(Len(lreqs))) < listArgs.page_size
           \/ Len(lreqs) = 1000
        /\ FetchAllExamples

\* The call against pages of 100, 100 and 37 items has returned its 237 items,
\* page set although fetch_all.
C6_Witness ==
    /\ FetchAllReturned /\ listArgs.page # NoPage
    /\ listArgs.page_size = 100 /\ server.sizes = <<100, 100, 37>>
    /\ Len(lreqs) = 3 /\ Len(lresult.items) = 237
    /\ lresult.items[237] = <<3, 37>>

\* C7 (as claimed): a list call with page_size < 1 or page_size > 100 fails with
\* the taxonomy's ValidationError and issues no request, whatever page and
\* fetch_all are.
C7_Claimed ==
    (lpc = "done" /\ (listArgs.page_size < 1 \/ listArgs.page_size > 100)) =>
        (lresult.kind = "ValidationError" /\ lreqs = <<>>)

\* C8: authenticate(u, p) takes each credential from the argument when it is
\* non-empty and from the settings otherwise; with an empty resolved username
\* or password it raises AuthenticationError, sends nothing and leaves token
\* and expiry alone; otherwise it posts exactly the resolved pair.
C8_Credentials ==
    [][\A c \in Callers : \A u \in UserArgs, p \in PwdArgs :
          ((pc'[c] = "auth_wait" \/ result'[c].op = "authenticate") /\ Authenticate(c, u, p)) =>
              LET user == IF u \in {NoArg, ""} THEN settings.user ELSE u
                  pwd == IF p \in {NoArg, ""} THEN settings.pwd ELSE p
              IN  IF user = "" \/ pwd = ""
                  THEN /\ result'[c].op = "authenticate"
                       /\ result'[c].kind = "AuthenticationError"
                       /\ pc'[c] = "idle"
                       /\ authPosts' = authPosts /\ authBody' = authBody
                       /\ token' = token /\ expiry' = expiry
                  ELSE /\ authBody'[c] = [user |-> user, pwd |-> pwd]
                       /\ authPosts' = authPosts + 1]_vars

\* authenticate() failed although no POST /auth was ever sent.
C8_Witness ==
    /\ result["a"].op = "authenticate" /\ result["a"].kind = "AuthenticationError"
    /\ authPosts = 0 /\ settings.user = "bob" /\ settings.pwd = ""

\* C9 (as claimed): an authenticate() that returns no token ends with
\* AuthenticationError and nothing else.
C9_Claimed ==
    \A c \in Callers :
        (result[c].op = "authenticate" /\ result[c].kind # "ok") =>
            result[c].kind = "AuthenticationError"

\* C10: a verb method classifies its response by the first rule that matches:
\* 404 ResourceNotFoundError; 401, 403 and every other non-2xx status
\* TaigaAPIError with that status; no response TaigaAPIError without a status;
\* whatever the verb, and a non-2xx status never returns normally.
C10_Classification ==
    [][\A c \in Callers : \A r \in TransportResponses :
          (pc[c] = "req_wait" /\ result'[c].status = Outcome(r).status /\ Response(c, r)) =>
              /\ result'[c].op = req[c].verb /\ req[c].verb \in Verbs
              /\ CASE r.kind = "neterr" ->
                        result'[c].kind = "TaigaAPIError" /\ result'[c].status = NoStatus
                   [] r.kind = "http" /\ r.status = 404 ->
                        result'[c].kind = "ResourceNotFoundError" /\ result'[c].status = 404
                   [] r.kind = "http" /\ r.status = 401 ->
                        result'[c].kind = "TaigaAPIError" /\ result'[c].status = 401
                   [] r.kind = "http" /\ r.status = 403 ->
                        result'[c].kind = "TaigaAPIError" /\ result'[c].status = 403
                   [] r.kind = "http" /\ r.status \notin 200..299
                                     /\ r.status \notin {401, 403, 404} ->
                        result'[c].kind = "TaigaAPIError" /\ result'[c].status = r.status
                   [] OTHER -> result'[c].kind = "ok"]_vars

\* A DELETE ended with ResourceNotFoundError.
C10_Witness ==
    /\ result["a"].op = "DELETE" /\ result["a"].kind = "ResourceNotFoundError"
    /\ result["a"].status = 404 /\ token # NoToken

\* The first segment of a path: its first run of pieces other than "/".
FirstSegment(p) ==
    LET from == IF p[1] = "/" THEN 2 ELSE 1
        rest == SubSeq(p, from, Len(p))
    IN  Split(rest)[1]

\* C11 (as claimed): for every request path, a 404 response raises
\* ResourceNotFoundError with status 404, whose resource type is the first
\* segment of the path and whose identifier is the path unchanged; for
\* GET /epics/999 the resource type is "epics" and the identifier "/epics/999".
C11_Claimed ==
    raised.kind = "ResourceNotFoundError" =>
        /\ raised.status = 404
        /\ raised.identifier = path
        /\ raised.resource_type = FirstSegment(path)
        /\ path = <<"/", "epics", "/", "999">> => raised.resource_type = <<"epics">>

\* C12 (as claimed): a get_token() that finds the token absent or expired sends
\* exactly one POST /auth; when that succeeds it returns the token just issued,
\* not the old one; when it fails, get_token() ends with AuthenticationError
\* and returns nothing. (Stated for settings that hold credentials.)
C12_Claimed ==
    [][\A c \in Callers :
          /\ (GetToken(c) /\ ~IsAuthenticated /\ settings.user # "" /\ settings.pwd # "") =>
                (authPosts' = authPosts + 1 /\ pc'[c] = "auth_wait")
          /\ \A r \in AuthResponses :
                (AuthResponse(c, r) /\ frame[c] = "get_token") =>
                    /\ authPosts' = authPosts
                    /\ IF r = "ok"
                       THEN ret'[c] = issued' /\ ret'[c] # token /\ token' = issued'
                       ELSE /\ result'[c].op = "get_token"
                            /\ result'[c].kind = "AuthenticationError"
                            /\ result'[c].value = NoToken
          /\ (AuthExit(c) /\ frame[c] = "get_token") =>
                /\ authPosts' = authPosts
                /\ result'[c].kind = "ok" /\ result'[c].value = ret[c]]_vars

\* Caller c is inside its `async with TaigaClient()` block.
InSession(c) ==
    \/ pc[c] \in {"session", "req_wait"}
    \/ pc[c] \in {"auth_wait", "auth_exit"} /\ frame[c] \in Verbs

\* C13: outside a session scope the TaigaClient holds no httpx client, however
\* the block ended (normally, with an error of a verb call, or with
\* AuthenticationError in __aenter__); an open httpx client is never replaced,
\* only closed, so each one is closed once; and the end of the block closes.
C13_SessionReleased ==
    /\ [](\A c \in Callers : ~InSession(c) => client[c] = NoClient)
    /\ [][\A c \in Callers :
            /\ client[c] # NoClient => client'[c] \in {client[c], NoClient}
            /\ SessionExit(c) => (client'[c] = NoClient /\ pc'[c] = "idle")]_vars

\* The block has ended after a verb call in it raised TaigaAPIError.
C13_Witness ==
    /\ pc["a"] = "idle" /\ client["a"] = NoClient
    /\ result["a"].op \in Verbs /\ result["a"].kind = "TaigaAPIError"
    /\ result["a"].value # NoToken

\* Response r is a failure: no response, or a status that is not 2xx.
IsFailure(r) == r.kind = "neterr" \/ r.status \notin 200..299

\* A fetch-all call is waiting for the page it requested last.
FetchingAll == lpc = "all" /\ listArgs.fetch_all

\* C14: when the request for a page of a fetch-all call fails, the call raises
\* that failure and returns no items, the pages accumulated before are dropped
\* with it, and no further page is requested: the failing request is the last.
C14_NoPartialResult ==
    /\ [][\A r \in ListResponses :
            ((ListEpicsResponse(r) \/ ListUserStoriesResponse(r))
                /\ FetchingAll /\ IsFailure(r)) =>
                /\ lpc' = "done"
                /\ lresult'.kind \in {"TaigaAPIError", "ResourceNotFoundError"}
                /\ lresult'.status = (IF r.kind = "neterr" THEN NoStatus ELSE r.status)
                /\ lresult'.items = <<>> /\ all_items' = <<>>
                /\ lreqs' = lreqs]_vars
    /\ [][lpc = "done" => (lreqs' = lreqs /\ lresult' = lresult)]_vars

\* A fetch-all call failed on its second page, the first one full.
C14_Witness ==
    /\ lpc = "done" /\ listArgs.fetch_all /\ lresult.kind = "TaigaAPIError"
    /\ lresult.status = 500 /\ lresult.items = <<>>
    /\ Len(lreqs) = 2 /\ Len(PageAt(1)) >= listArgs.page_size

\* C15: token and expiry change only when an authenticate() succeeds (both
\* replaced), on clear_token(), and when a verb method receives 401. A failed
\* authenticate(), whatever the failure, a verb call that succeeds, and one
\* that fails with 404, 403, another non-2xx status or without a response
\* leave both exactly as they were.
C15_TokenFrame ==
    [][(token' # token \/ expiry' # expiry) =>
          /\ \E c \in Callers :
                \/ AuthResponse(c, "ok") /\ token' = issued' /\ expiry' = now + settings.ttl
                \/ ClearToken(c)
                \/ Response(c, [kind |-> "http", status |-> 401])
          /\ \A c \in Callers :
                /\ \A r \in AuthResponses \ {"ok"} : ~AuthResponse(c, r)
                /\ \A u \in UserArgs, p \in PwdArgs : ~Authenticate(c, u, p)
                /\ \A r \in TransportResponses \ {[kind |-> "http", status |-> 401]} :
                      ~Response(c, r)]_vars

\* A verb call has ended with 403 and the token it carried is still cached.
C15_Witness ==
    /\ result["a"].op \in Verbs /\ result["a"].status = 403
    /\ token # NoToken /\ token = result["a"].value /\ expiry # Epoch

\* C16 (as claimed): with callers interleaved at every await, a get_token()
\* that completes, called directly or by _ensure_client, returns a token that
\* an authentication issued or ends with AuthenticationError; a token cleared
\* by another caller meanwhile makes it fail in no other way.
C16_Claimed ==
    \A c \in Callers :
        /\ result[c].op = "get_token" =>
              \/ result[c].kind = "ok" /\ result[c].value \in 1..issued
              \/ result[c].kind = "AuthenticationError"
        /\ (result[c].op \in {"aenter"} \cup Verbs /\ result[c].value = NoToken) =>
              result[c].kind \in {"ok", "AuthenticationError"}

\* C17: with authenticate() and clear_token() of concurrent callers
\* interleaved, the slot is always either (no token, expiry 0) or a token
\* with the expiry written together with it: without a token the expiry is 0,
\* a step that writes a token writes its expiry as now + TTL in the same step,
\* and the expiry never changes while the token stays.
C17_SlotConsistent ==
    /\ [](token = NoToken => expiry = Epoch)
    /\ [][IF token' # token
           THEN \/ token' = NoToken /\ expiry' = Epoch
                \/ token' = issued' /\ issued' = issued + 1
                      /\ expiry' = now + settings.ttl
           ELSE expiry' = expiry]_vars

\* One caller's authentication has replaced the token of another's, and a
\* clear_token() happened before; the clock has moved since the first token.
C17_Witness ==
    /\ token = 2 /\ expiry = now + settings.ttl /\ now > 1 /\ settings.ttl > 0
    /\ result["b"].op = "clear_token" /\ pc["a"] = "auth_exit"

\* C18: a get_token() that has to re-authenticate uses the credentials of the
\* settings, whatever an earlier authenticate(username, password) was given:
\* it posts the configured pair, and when the settings hold no username or no
\* password it ends with AuthenticationError and sends nothing.
C18_ConfigCredentials ==
    [][\A c \in Callers :
          (GetToken(c) /\ ~IsAuthenticated) =>
              IF settings.user = "" \/ settings.pwd = ""
              THEN /\ result'[c].op = "get_token"
                   /\ result'[c].kind = "AuthenticationError"
                   /\ pc'[c] = "idle"
                   /\ authPosts' = authPosts /\ authBody' = authBody
              ELSE /\ authBody'[c] = [user |-> settings.user, pwd |-> settings.pwd]
                   /\ authPosts' = authPosts + 1
                   /\ pc'[c] = "auth_wait"]_vars

\* An explicit authenticate("alice", "pw-a") got a token, the token was cleared
\* or expired, and the get_token() after it failed without a POST /auth.
C18_Witness ==
    /\ settings.user = "" /\ issued = 1 /\ authPosts = 1
    /\ result["a"].op = "get_token" /\ result["a"].kind = "AuthenticationError"
    /\ ~IsAuthenticated

\* C19: an authenticate() that succeeds stores the token the endpoint returned,
\* sets the expiry to the current time plus settings.token_expiration, and
\* returns the token it stored; with a positive TTL is_authenticated holds
\* from then on at every time before that expiry, as long as the token is
\* still the one this call stored.
C19_StoresToken ==
    /\ [][\A c \in Callers :
            /\ AuthResponse(c, "ok") =>
                  /\ issued' = issued + 1 /\ token' = issued'
                  /\ expiry' = now + settings.ttl
                  /\ ret'[c] = token'
                  /\ settings.ttl > 0 => IsAuthenticated'
            /\ (AuthExit(c) /\ frame[c] = "tool") =>
                  /\ result'[c].op = "authenticate" /\ result'[c].kind = "ok"
                  /\ result'[c].value = ret[c] /\ ret[c] # NoToken]_vars
    /\ [](\A c \in Callers :
            (result[c].op = "authenticate" /\ result[c].kind = "ok"
                /\ token = result[c].value /\ now < expiry) => IsAuthenticated)

\* authenticate() returned the token now cached, the clock has moved since and
\* stands one tick before the expiry.
C19_Witness ==
    /\ result["a"].op = "authenticate" /\ result["a"].kind = "ok"
    /\ token = result["a"].value /\ token # NoToken
    /\ now > 1 /\ now = expiry - 1 /\ IsAuthenticated

\* Every page the server holds up to the ceiling is full.
AllPagesFull == \A i \in 1..1000 : Len(PageAt(i)) >= listArgs.page_size

\* C20: a fetch-all call issues at most 1000 requests, for the pages 1, 2, ...
\* in order, so never one for page 1001; after page 1000 the loop ends without
\* a request and without an error; and when every page is full the call
\* returns, with no error of its own, the concatenation of the pages 1..1000.
C20_Ceiling ==
    /\ [](listArgs.fetch_all =>
            /\ Len(lreqs) <= 1000
            /\ \A i \in 1..Len(lreqs) : lreqs[i].page = i
            /\ (FetchAllReturned /\ AllPagesFull) =>
                  (Len(lreqs) = 1000 /\ lresult.items = ConcatPages(1, 1000)))
    /\ [][((ListEpicsLoop \/ ListUserStoriesLoop) /\ current_page > 1000) =>
            /\ lreqs' = lreqs /\ lpc' = "done"
            /\ lresult' = [kind |-> "ok", status |-> NoStatus, items |-> all_items]]_vars

\* A fetch-all call of page size 2 against a server of full pages only has
\* returned after its request for page 1000.
C20_Witness ==
    /\ FetchAllReturned /\ AllPagesFull /\ listArgs.page_size = 2
    /\ Len(lreqs) = 1000 /\ lreqs[1000].page = 1000
    /\ Len(lresult.items) = 2000 /\ lresult.items[2000] = <<1000, 2>>

\* The call's page size passed the validation.
ValidPageSize == listArgs.page_size >= 1 /\ listArgs.page_size <= 100

\* The resource path of the call's service.
ResourcePath == IF listArgs.svc = "epics" THEN "/epics" ELSE "/userstories"

\* C21: a list call with page given and fetch_all false (its page size valid)
\* issues exactly one GET, with project, page_size and page as given, and
\* returns the items of that response in the order received; a full page is
\* followed by no request for the next one.
C21_SinglePage ==
    (listArgs.page # NoPage /\ ~listArgs.fetch_all /\ ValidPageSize) =>
        /\ lpc \in {"call", "single", "done"}
        /\ lpc = "call" => lreqs = <<>>
        /\ lpc \in {"single", "done"} =>
              lreqs = <<[path |-> ResourcePath, project |-> listArgs.project_id,
                         page_size |-> listArgs.page_size, page |-> listArgs.page]>>
        /\ (lpc = "done" /\ lresult.kind = "ok") => lresult.items = PageAt(listArgs.page)

\* Page 2 of the pages of 100, 100 and 37 items was asked for alone and came
\* back full; the call returned it after its one request.
C21_Witness ==
    /\ lpc = "done" /\ lresult.kind = "ok" /\ ~listArgs.fetch_all
    /\ listArgs.page = 2 /\ listArgs.page_size = 100 /\ server.sizes = <<100, 100, 37>>
    /\ Len(lreqs) = 1 /\ lreqs[1].page = 2
    /\ Len(lresult.items) = 100 /\ lresult.items[100] = <<2, 100>>

\* The mode a list call runs in once it has passed the validation.
ModeRunning ==
    CASE lpc = "single" -> "single"
      [] lpc \in {"loop", "all"} -> "all"
      [] lpc = "default" -> "default"
      [] OTHER -> "none"

\* The mode the arguments page and fetch_all select.
ModeSelected ==
    IF listArgs.fetch_all THEN "all"
    ELSE IF listArgs.page # NoPage THEN "single" ELSE "default"

\* C22: a list call with page not given and fetch_all false (its page size
\* valid) issues exactly one GET, with project and page_size and no page
\* parameter, and returns the items of that response; whatever the other
\* arguments and the server, the mode that runs is the one page and fetch_all
\* select, and no other mode runs in the same call.
C22_DefaultMode ==
    ValidPageSize =>
        /\ ModeRunning \in {"none", ModeSelected}
        /\ (listArgs.page = NoPage /\ ~listArgs.fetch_all) =>
              /\ lpc = "call" => lreqs = <<>>
              /\ lpc \in {"default", "done"} =>
                    lreqs = <<[path |-> ResourcePath, project |-> listArgs.project_id,
                               page_size |-> listArgs.page_size, page |-> NoPage]>>
              /\ (lpc = "done" /\ lresult.kind = "ok") => lresult.items = PageAt(1)
        /\ (lpc = "done" /\ ModeSelected # "all") => Len(lreqs) = 1

\* A call without page and without fetch_all returned the full first page of
\* a server that holds more, after one request without a page parameter.
C22_Witness ==
    /\ lpc = "done" /\ lresult.kind = "ok" /\ ~listArgs.fetch_all
    /\ listArgs.page = NoPage /\ listArgs.page_size = 100
    /\ server.sizes = <<100, 100, 37>>
    /\ Len(lreqs) = 1 /\ lreqs[1].page = NoPage
    /\ Len(lresult.items) = 100 /\ lresult.items[100] = <<1, 100>>

\* Request q with the resource path replaced.
OnPath(q, p) == [q EXCEPT !.path = p]

\* C23: list_epics and list_user_stories, called with the same page_size, page
\* and fetch_all and given the same responses, issue the same requests, equal
\* in number and in every parameter and differing in the path only, and end
\* alike: with the same items in the same order, or with the same failure.
C23_SameMachine ==
    first # NoFirst =>
        /\ listArgs.svc = "userstories"
        /\ Len(lreqs) <= Len(first.lreqs)
        /\ \A j \in 1..Len(lreqs) :
              /\ first.lreqs[j].path = "/epics"
              /\ lreqs[j] = OnPath(first.lreqs[j], "/userstories")
        /\ lpc = "done" => (Len(lreqs) = Len(first.lreqs) /\ lresult = first.lresult)

\* Both calls fetched all pages and failed alike on their second request.
C23_Witness ==
    /\ first # NoFirst /\ lpc = "done" /\ listArgs.fetch_all
    /\ Len(first.lreqs) = 2 /\ Len(lreqs) = 2
    /\ lresult.kind = "ResourceNotFoundError" /\ first.lresult.kind = "ResourceNotFoundError"

\* A verb method of caller c is called.
VerbCall(c) == Get(c) \/ Post(c) \/ Patch(c) \/ Delete(c)

\* C24: a TaigaClient holds at most one httpx client: one is built only while
\* none is held, at __aenter__ or by a verb call, and carries the token
\* get_token() returns at that moment; an open one is never replaced; close()
\* releases it and changes nothing when none is held; and a verb call after
\* close() builds a new one, at once with the cached token when that is valid.
C24_OneConnection ==
    [][\A c \in Callers :
          /\ client[c] # NoClient => client'[c] \in {client[c], NoClient}
          /\ (client[c] = NoClient /\ client'[c] # NoClient) =>
                /\ SessionEnter(c) \/ VerbCall(c) \/ AuthExit(c)
                /\ client'[c] = token' /\ token' = token /\ token \in 1..issued
                /\ pc'[c] = "req_wait" => req'[c].tok = client'[c]
          /\ Close(c) =>
                /\ client'[c] = NoClient
                /\ client[c] = NoClient => <<pc, req, tokenVars>>' = <<pc, req, tokenVars>>
          /\ (VerbCall(c) /\ client[c] = NoClient /\ IsAuthenticated) =>
                (client'[c] = token /\ pc'[c] = "req_wait")
          /\ (VerbCall(c) /\ client[c] = NoClient /\ ~IsAuthenticated) =>
                (client'[c] = NoClient /\ pc'[c] \in {"auth_wait", "session"})]_vars

\* After close() a verb call found the token gone, authenticated again and
\* sent its request on a new httpx client that carries the new token.
C24_Witness ==
    /\ result["a"].op = "close" /\ pc["a"] = "req_wait"
    /\ client["a"] = 2 /\ token = 2 /\ req["a"].tok = 2 /\ got["a"] = 2
====
